---- MODULE Spec2Model ----
(***************************************************************************)
(* Perft debugger: the bisection driver debug(), the comparator _debug()   *)
(* and the session runner _run() of src/perftdebug.py and                  *)
(* src/perftdebugger.py.                                                   *)
(*                                                                         *)
(* A Python str is a tuple of one-character strings, a Python dict is a    *)
(* tuple of <<key, value>> pairs in insertion order, a Python set is a     *)
(* set.  Python values that may be a str or an int are tagged records.     *)
(***************************************************************************)
EXTENDS Integers, Sequences, FiniteSets, TLC

VARIABLES
    prog,            \* which file runs: "perftdebug" or "perftdebugger"
    depth,           \* debug(): parameter depth (the maximum depth D)
    fen,             \* debug(): parameter fen (the root position)
    moves,           \* debug(): local list moves (the path P)
    d,               \* debug(): loop variable of `for d in range(depth, 0, -1)`
    next_d,          \* debug(): the value the range iterator yields next
    pc,              \* position of the program
    chess_perft,     \* _debug(): local chess_perft (map of the tested engine)
    stockfish_perft, \* _debug(): local stockfish_perft (map of the reference)
    debug_result,    \* debug(): local debug_result (an enum member)
    payload,         \* DebugResult.<member>.payload, one attribute per member
    raised,          \* the uncaught exception that ended the program, if any
    report,          \* what debug() printed
    queries,         \* history: the arguments of every _run() call so far
    verdicts,        \* history: what every _debug() call returned
    response,        \* _run(): local response text, under SpecRun
    result,          \* _run(): what the call returned or raised, under SpecRun
    calls            \* _run(): the calls made on the process p, under SpecRun

vars == <<prog, depth, fen, moves, d, next_d, pc, chess_perft, stockfish_perft,
          debug_result, payload, raised, report, queries, verdicts, response,
          result, calls>>

-----------------------------------------------------------------------------
(* Bounds *)

MaxDepth == 3
MaxLines == 3

-----------------------------------------------------------------------------
(* Program constants *)

ENGINE_PATH == "./target/debug/chess"
STOCKFISH_PATH == "stockfish"
STARTING_FEN == "rnbqkbnr/pppppppp/8/8/8/8/PPPPPPPP/RNBQKBNR w KQkq - 0 1"
MAIN_FEN == "rnbq1k1r/pp1Pbppp/2p5/8/2B5/8/PPP1NnPP/RNBQK2R w KQ - 1 8"

Progs == {"perftdebug", "perftdebugger"}

\* class DebugResult(Enum)
OK == "DebugResult.OK"
MISSING_MOVE == "DebugResult.MISSING_MOVE"
EXCESS_MOVE == "DebugResult.EXCESS_MOVE"
DISAGREE_MOVE == "DebugResult.DISAGREE_MOVE"
COUNT_MISMATCH == "DebugResult.COUNT_MISMATCH"
DebugResult == {OK, MISSING_MOVE, EXCESS_MOVE, DISAGREE_MOVE, COUNT_MISMATCH}

\* Python values
PyStr(s) == [type |-> "str", s |-> s]
PyInt(n) == [type |-> "int", n |-> n]
PySet(S) == [type |-> "set", elems |-> S]

-----------------------------------------------------------------------------
(* Python dict, in insertion order *)

EmptyDict == <<>>
DictKeys(dct) == {dct[i][1] : i \in DOMAIN dct}
DictIndex(dct, k) == CHOOSE i \in DOMAIN dct : dct[i][1] = k
DictGet(dct, k) == dct[DictIndex(dct, k)][2]
\* result[k] = v : a new key goes last, an old key keeps its place
DictSet(dct, k, v) ==
    IF k \in DictKeys(dct)
    THEN [dct EXCEPT ![DictIndex(dct, k)] = <<k, v>>]
    ELSE Append(dct, <<k, v>>)

-----------------------------------------------------------------------------
(* str.split(sep) for a one-character separator *)

RECURSIVE SplitFrom(_, _, _, _, _)
\* s[i..] is still to read, cur is the piece being read, acc the pieces read
SplitFrom(s, sep, i, cur, acc) ==
    IF i > Len(s) THEN Append(acc, cur)
    ELSE IF s[i] = sep THEN SplitFrom(s, sep, i + 1, <<>>, Append(acc, cur))
    ELSE SplitFrom(s, sep, i + 1, Append(cur, s[i]), acc)

Split(s, sep) == SplitFrom(s, sep, 1, <<>>, <<>>)

-----------------------------------------------------------------------------
(* _run(): the response parser *)

Files == {"a", "b", "c", "d", "e", "f", "g", "h"}
Ranks == {"1", "2", "3", "4", "5", "6", "7", "8"}

\* match("^[a-h][1-8]{2}", line) of perftdebug.py
MatchDebug(line) ==
    /\ Len(line) >= 3
    /\ line[1] \in Files
    /\ line[2] \in Ranks
    /\ line[3] \in Ranks

\* match("^[a-h]{1}[1-8]{1}", line) of perftdebugger.py
MatchDebugger(line) ==
    /\ Len(line) >= 2
    /\ line[1] \in Files
    /\ line[2] \in Ranks

Match(p, line) ==
    IF p = "perftdebug" THEN MatchDebug(line) ELSE MatchDebugger(line)

Returned(v) == [raised |-> "none", value |-> v]
Raised(e) == [raised |-> e, value |-> EmptyDict]

RECURSIVE ParseLines(_, _, _, _)
\* for line in response: ... ; lines[i..] are still to read
ParseLines(p, lines, i, res) ==
    IF i > Len(lines) THEN Returned(res)
    ELSE IF Match(p, lines[i])
    THEN LET parts == Split(lines[i], ":")
         IN  \* move, node_count = line.split(":")
             IF Len(parts) # 2 THEN Raised("ValueError")
             ELSE ParseLines(p, lines, i + 1,
                             DictSet(res, parts[1], PyStr(parts[2])))
    ELSE ParseLines(p, lines, i + 1, res)

\* response = p.stdout.read().split("\n") and the loop over it
Parse(p, text) == ParseLines(p, Split(text, "\n"), 1, EmptyDict)

-----------------------------------------------------------------------------
(* What an engine process may print: lines of text, each ended by a newline *)

\* e2e4: 20
Line_e2e4_20 == <<"e", "2", "e", "4", ":", " ", "2", "0">>
\* d2d4: 20
Line_d2d4_20 == <<"d", "2", "d", "4", ":", " ", "2", "0">>
\* d2d4: 21
Line_d2d4_21 == <<"d", "2", "d", "4", ":", " ", "2", "1">>
\* a11: 5
Line_a11_5 == <<"a", "1", "1", ":", " ", "5">>
\* a11: 6
Line_a11_6 == <<"a", "1", "1", ":", " ", "6">>
\* Nodes searched: 20
Line_total == <<"N", "o", "d", "e", "s", " ", "s", "e", "a", "r", "c", "h", "e", "d", ":", " ", "2", "0">>
\* a11
Line_a11 == <<"a", "1", "1">>

Lines == {Line_e2e4_20, Line_d2d4_20, Line_d2d4_21, Line_a11_5, Line_a11_6, Line_total, Line_a11}

\* the keys and values these lines hold, as Python str
e2e4 == <<"e", "2", "e", "4">>
d2d4 == <<"d", "2", "d", "4">>
a11 == <<"a", "1", "1">>
Count20 == PyStr(<<" ", "2", "0">>)
Count21 == PyStr(<<" ", "2", "1">>)
Count5 == PyStr(<<" ", "5">>)
Count6 == PyStr(<<" ", "6">>)

RECURSIVE Text(_)
\* the text a process prints when it prints the lines ls
Text(ls) ==
    IF ls = <<>> THEN <<>> ELSE Head(ls) \o <<"\n">> \o Text(Tail(ls))

SeqsUpTo(S, n) == UNION {[1..k -> S] : k \in 0..n}

\* p.stdout.read(): any text of at most MaxLines lines
Responses == {Text(ls) : ls \in SeqsUpTo(Lines, MaxLines)}

\* what _run() returns or raises on these texts, in each of the two files
RunOutcomes == [p \in Progs |-> {Parse(p, text) : text \in Responses}]

\* the failures of Popen() and of the pipe writes
ProcessErrors == {"FileNotFoundError", "BrokenPipeError"}

-----------------------------------------------------------------------------
(* DebugResult.load() and _debug(): the comparator *)

NoPayload == [type |-> "unset"]

\* Load that sets the attribute only while the member has none
LoadOnce(pl, member, x) ==
    IF pl[member] = NoPayload
    THEN [result |-> member, payload |-> [pl EXCEPT ![member] = x]]
    ELSE [result |-> member, payload |-> pl]

\* def load(self, payload): self.payload = payload; return self
Load(pl, member, x) ==
    [result |-> member, payload |-> [pl EXCEPT ![member] = x]]

\* MoveSetVerdict with the two difference payloads exchanged
MoveSetVerdictSwapped(pl, egn_moves, sf_moves) ==
    IF Cardinality(egn_moves) > Cardinality(sf_moves)
    THEN Load(pl, EXCESS_MOVE, PySet(sf_moves \ egn_moves))
    ELSE IF Cardinality(sf_moves) > Cardinality(egn_moves)
    THEN Load(pl, MISSING_MOVE, PySet(egn_moves \ sf_moves))
    ELSE Load(pl, DISAGREE_MOVE,
              PySet((egn_moves \ sf_moves) \cup (sf_moves \ egn_moves)))

\* MoveSetVerdict with a plain difference where the source has ^
MoveSetVerdictOneSided(pl, egn_moves, sf_moves) ==
    IF Cardinality(egn_moves) > Cardinality(sf_moves)
    THEN Load(pl, EXCESS_MOVE, PySet(egn_moves \ sf_moves))
    ELSE IF Cardinality(sf_moves) > Cardinality(egn_moves)
    THEN Load(pl, MISSING_MOVE, PySet(sf_moves \ egn_moves))
    ELSE Load(pl, DISAGREE_MOVE, PySet(egn_moves \ sf_moves))

\* MoveSetVerdict choosing the variant by inclusion, not by size
MoveSetVerdictBySubset(pl, egn_moves, sf_moves) ==
    IF sf_moves \subseteq egn_moves
    THEN Load(pl, EXCESS_MOVE, PySet(egn_moves \ sf_moves))
    ELSE IF egn_moves \subseteq sf_moves
    THEN Load(pl, MISSING_MOVE, PySet(sf_moves \ egn_moves))
    ELSE Load(pl, DISAGREE_MOVE,
              PySet((egn_moves \ sf_moves) \cup (sf_moves \ egn_moves)))

\* the branch taken when egn_moves != sf_moves
MoveSetVerdict(pl, egn_moves, sf_moves) ==
    IF Cardinality(egn_moves) > Cardinality(sf_moves)
    THEN Load(pl, EXCESS_MOVE, PySet(egn_moves \ sf_moves))
    ELSE IF Cardinality(sf_moves) > Cardinality(egn_moves)
    THEN Load(pl, MISSING_MOVE, PySet(sf_moves \ egn_moves))
    ELSE \* egn_moves ^ sf_moves
         Load(pl, DISAGREE_MOVE,
              PySet((egn_moves \ sf_moves) \cup (sf_moves \ egn_moves)))

\* CountScan with `return DebugResult.OK` inside the loop: one item is read
CountScanFirstOnly(pl, chess, stockfish, i) ==
    IF i > Len(chess) THEN [result |-> OK, payload |-> pl]
    ELSE IF DictGet(stockfish, chess[i][1]) # chess[i][2]
    THEN Load(pl, COUNT_MISMATCH, PyStr(chess[i][1]))
    ELSE [result |-> OK, payload |-> pl]

RECURSIVE CountScanPositional(_, _, _, _)
\* CountScan comparing the i-th items of both maps, not the values of a key
CountScanPositional(pl, chess, stockfish, i) ==
    IF i > Len(chess) THEN [result |-> OK, payload |-> pl]
    ELSE IF stockfish[i][2] # chess[i][2]
    THEN Load(pl, COUNT_MISMATCH, PyStr(chess[i][1]))
    ELSE CountScanPositional(pl, chess, stockfish, i + 1)

RECURSIVE CountScanReferenceOrder(_, _, _, _)
\* CountScan as `for k, v in stockfish_perft.items()`: the reference's order
CountScanReferenceOrder(pl, chess, stockfish, i) ==
    IF i > Len(stockfish) THEN [result |-> OK, payload |-> pl]
    ELSE IF DictGet(chess, stockfish[i][1]) # stockfish[i][2]
    THEN Load(pl, COUNT_MISMATCH, PyStr(stockfish[i][1]))
    ELSE CountScanReferenceOrder(pl, chess, stockfish, i + 1)

RECURSIVE CountScan(_, _, _, _)
\* for k, v in chess_perft.items(): items i.. of chess are still to scan
CountScan(pl, chess, stockfish, i) ==
    IF i > Len(chess) THEN [result |-> OK, payload |-> pl]
    ELSE IF DictGet(stockfish, chess[i][1]) # chess[i][2]
    THEN Load(pl, COUNT_MISMATCH, PyStr(chess[i][1]))
    ELSE CountScan(pl, chess, stockfish, i + 1)

\* Compare with the counts scanned first, by `stockfish_perft.get(k) != v`
CompareCountsFirst(pl, chess, stockfish) ==
    LET bad == {i \in DOMAIN chess :
                   \/ chess[i][1] \notin DictKeys(stockfish)
                   \/ DictGet(stockfish, chess[i][1]) # chess[i][2]}
    IN  IF bad # {}
        THEN Load(pl, COUNT_MISMATCH,
                  PyStr(chess[CHOOSE i \in bad : \A j \in bad : i <= j][1]))
        ELSE IF DictKeys(chess) # DictKeys(stockfish)
        THEN MoveSetVerdict(pl, DictKeys(chess), DictKeys(stockfish))
        ELSE [result |-> OK, payload |-> pl]

\* _debug() after its two _run() calls
Compare(pl, chess, stockfish) ==
    LET egn_moves == DictKeys(chess)
        sf_moves == DictKeys(stockfish)
    IN  IF egn_moves # sf_moves
        THEN MoveSetVerdict(pl, egn_moves, sf_moves)
        ELSE CountScan(pl, chess, stockfish, 1)

-----------------------------------------------------------------------------
(* debug(): the driver *)

NoReport == [kind |-> "none"]

\* print(f"{debug_result} {fen} depth {depth}") and print(debug_result)
AgreeReport(p, res, f, dep) ==
    IF p = "perftdebug"
    THEN [kind |-> "agree", verdict |-> res, fen |-> f, depth |-> dep]
    ELSE [kind |-> "agree", verdict |-> res]

\* variation = fen + " " + " ".join(moves); print(verdict, payload, variation)
VariationReport(res, pl, f, ms) ==
    [kind |-> "variation", verdict |-> res, payload |-> pl,
     variation |-> [fen |-> f, moves |-> ms]]

\* print("Debug failed to find variation")
FailedReport == [kind |-> "failed"]

\* the executable _run() starts for the tested engine and for the reference
PathOf(who) == IF who = "stockfish" THEN STOCKFISH_PATH ELSE ENGINE_PATH

\* p.stdin.write(f"position fen {fen} moves {moves}\n"), moves being
\* " ".join(moves); perftdebugger.py leaves the word `moves` out for the
\* tested engine
PositionLine(p, who, f, ms) ==
    [cmd |-> "position fen", fen |-> f,
     keyword |-> IF p = "perftdebug" \/ who = "stockfish" THEN "moves" ELSE "",
     moves |-> ms]

\* the three lines _run() writes to the process
Conversation(p, who, dep, f, ms) ==
    <<PositionLine(p, who, f, ms),
      [cmd |-> "go perft", depth |-> dep],
      [cmd |-> "quit"]>>

\* one _run() call: its arguments and what it writes
Query(p, who, dep, f, ms) ==
    [engine |-> who, path |-> PathOf(who), depth |-> dep, fen |-> f,
     moves |-> ms, stdin |-> Conversation(p, who, dep, f, ms)]

EngineQuery == Query(prog, "engine", d, fen, moves)

\* ReferenceQuery asking the reference one ply less
ReferenceQueryShallower == Query(prog, "stockfish", d - 1, fen, moves)

ReferenceQuery == Query(prog, "stockfish", d, fen, moves)

InitCommon ==
    /\ prog \in Progs
    /\ moves = <<>>
    /\ d = 0
    /\ chess_perft = EmptyDict
    /\ stockfish_perft = EmptyDict
    /\ debug_result = "unbound"
    /\ payload = [m \in DebugResult |-> NoPayload]
    /\ raised = "none"
    /\ report = NoReport
    /\ queries = <<>>
    /\ verdicts = <<>>
    /\ result = Returned(EmptyDict)
    /\ calls = <<>>

\* debug(depth, fen) is entered: moves = [], the range iterator is fresh
Init ==
    /\ InitCommon
    /\ depth \in 1..MaxDepth
    /\ fen \in {STARTING_FEN, MAIN_FEN}
    /\ next_d = depth
    /\ pc = "for"
    /\ response = <<>>

\* ForNext over range(depth, 0, -2)
ForNextStepTwo ==
    /\ pc = "for"
    /\ next_d >= 1
    /\ d' = next_d
    /\ next_d' = next_d - 2
    /\ pc' = "run_eng"
    /\ UNCHANGED <<prog, depth, fen, moves, chess_perft, stockfish_perft,
                   debug_result, payload, raised, report, queries, verdicts,
                   response, result, calls>>

\* for d in range(depth, 0, -1): the next iteration starts
ForNext ==
    /\ pc = "for"
    /\ next_d >= 1
    /\ d' = next_d
    /\ next_d' = next_d - 1
    /\ pc' = "run_eng"
    /\ UNCHANGED <<prog, depth, fen, moves, chess_perft, stockfish_perft,
                   debug_result, payload, raised, report, queries, verdicts,
                   response, result, calls>>

\* ForExhausted with the loop left one value early, before depth 1 is tried
ForExhaustedEarly ==
    /\ pc = "for"
    /\ next_d < 2
    /\ report' = FailedReport
    /\ pc' = "done"
    /\ UNCHANGED <<prog, depth, fen, moves, d, next_d, chess_perft,
                   stockfish_perft, debug_result, payload, raised, queries,
                   verdicts, response, result, calls>>

\* the range is used up: print("Debug failed to find variation")
ForExhausted ==
    /\ pc = "for"
    /\ next_d < 1
    /\ report' = FailedReport
    /\ pc' = "done"
    /\ UNCHANGED <<prog, depth, fen, moves, d, next_d, chess_perft,
                   stockfish_perft, debug_result, payload, raised, queries,
                   verdicts, response, result, calls>>

\* chess_perft = _run(eng, depth, fen, moves)
RunEngine ==
    /\ pc = "run_eng"
    /\ queries' = Append(queries, EngineQuery)
    /\ \E r \in RunOutcomes[prog] :
          /\ raised' = r.raised
          /\ chess_perft' = r.value
          /\ pc' = IF r.raised = "none" THEN "run_ref" ELSE "done"
    /\ UNCHANGED <<prog, depth, fen, moves, d, next_d, stockfish_perft,
                   debug_result, payload, report, verdicts, response, result,
                   calls>>

\* stockfish_perft = _run(ref, depth, fen, moves)
RunReference ==
    /\ pc = "run_ref"
    /\ queries' = Append(queries, ReferenceQuery)
    /\ \E r \in RunOutcomes[prog] :
          /\ raised' = r.raised
          /\ stockfish_perft' = r.value
          /\ pc' = IF r.raised = "none" THEN "compare" ELSE "done"
    /\ UNCHANGED <<prog, depth, fen, moves, d, next_d, chess_perft,
                   debug_result, payload, report, verdicts, response, result,
                   calls>>

\* RunFails inside `try: ... except OSError: continue`: the depth is skipped
RunFailsSkipsDepth ==
    /\ pc \in {"run_eng", "run_ref"}
    /\ queries' = Append(queries,
                         IF pc = "run_eng" THEN EngineQuery ELSE ReferenceQuery)
    /\ raised' \in ProcessErrors
    /\ pc' = "for"
    /\ UNCHANGED <<prog, depth, fen, moves, d, next_d, chess_perft,
                   stockfish_perft, debug_result, payload, report, verdicts,
                   response, result, calls>>

\* a _run() call whose process cannot be started or written to
RunFails ==
    /\ pc \in {"run_eng", "run_ref"}
    /\ queries' = Append(queries,
                         IF pc = "run_eng" THEN EngineQuery ELSE ReferenceQuery)
    /\ raised' \in ProcessErrors
    /\ pc' = "done"
    /\ UNCHANGED <<prog, depth, fen, moves, d, next_d, chess_perft,
                   stockfish_perft, debug_result, payload, report, verdicts,
                   response, result, calls>>

\* the rest of _debug(): compare the two maps, return the verdict to debug()
CompareMaps ==
    /\ pc = "compare"
    /\ LET v == Compare(payload, chess_perft, stockfish_perft)
       IN  /\ debug_result' = v.result
           /\ payload' = v.payload
           /\ verdicts' = Append(verdicts,
                                 [depth |-> d, result |-> v.result,
                                  payload |-> v.payload[v.result]])
    /\ pc' = "dispatch"
    /\ UNCHANGED <<prog, depth, fen, moves, d, next_d, chess_perft,
                   stockfish_perft, raised, report, queries, response, result,
                   calls>>

\* ReportAgree without its `return`: the loop goes on after the print
ReportAgreeNoReturn ==
    /\ pc = "dispatch"
    /\ debug_result = OK
    /\ report' = AgreeReport(prog, debug_result, fen, depth)
    /\ pc' = "for"
    /\ chess_perft' = EmptyDict
    /\ stockfish_perft' = EmptyDict
    /\ UNCHANGED <<prog, depth, fen, moves, d, next_d, debug_result, payload,
                   raised, queries, verdicts, response, result, calls>>

\* if debug_result is DebugResult.OK: print(...); return
ReportAgree ==
    /\ pc = "dispatch"
    /\ debug_result = OK
    /\ report' = AgreeReport(prog, debug_result, fen, depth)
    /\ pc' = "done"
    /\ chess_perft' = EmptyDict
    /\ stockfish_perft' = EmptyDict
    /\ UNCHANGED <<prog, depth, fen, moves, d, next_d, debug_result, payload,
                   raised, queries, verdicts, response, result, calls>>

\* ExploreDeeper with moves.insert(0, ...) for moves.append(...)
ExploreDeeperInsertFirst ==
    /\ pc = "dispatch"
    /\ debug_result = COUNT_MISMATCH
    /\ moves' = <<payload[debug_result].s>> \o moves
    /\ pc' = "for"
    /\ chess_perft' = EmptyDict
    /\ stockfish_perft' = EmptyDict
    /\ UNCHANGED <<prog, depth, fen, d, next_d, debug_result, payload, raised,
                   report, queries, verdicts, response, result, calls>>

\* if debug_result is DebugResult.COUNT_MISMATCH: moves.append(...); continue
ExploreDeeper ==
    /\ pc = "dispatch"
    /\ debug_result = COUNT_MISMATCH
    /\ moves' = Append(moves, payload[debug_result].s)
    /\ pc' = "for"
    /\ chess_perft' = EmptyDict
    /\ stockfish_perft' = EmptyDict
    /\ UNCHANGED <<prog, depth, fen, d, next_d, debug_result, payload, raised,
                   report, queries, verdicts, response, result, calls>>

\* ReportVariation without its `return`: the loop goes on after the print
ReportVariationNoReturn ==
    /\ pc = "dispatch"
    /\ debug_result \notin {OK, COUNT_MISMATCH}
    /\ report' = VariationReport(debug_result, payload[debug_result], fen,
                                 moves)
    /\ pc' = "for"
    /\ chess_perft' = EmptyDict
    /\ stockfish_perft' = EmptyDict
    /\ UNCHANGED <<prog, depth, fen, moves, d, next_d, debug_result, payload,
                   raised, queries, verdicts, response, result, calls>>

\* all other cases: print the verdict, its payload and the variation; return
ReportVariation ==
    /\ pc = "dispatch"
    /\ debug_result \notin {OK, COUNT_MISMATCH}
    /\ report' = VariationReport(debug_result, payload[debug_result], fen,
                                 moves)
    /\ pc' = "done"
    /\ chess_perft' = EmptyDict
    /\ stockfish_perft' = EmptyDict
    /\ UNCHANGED <<prog, depth, fen, moves, d, next_d, debug_result, payload,
                   raised, queries, verdicts, response, result, calls>>

Next ==
    \/ ForNext
    \/ ForExhausted
    \/ RunEngine
    \/ RunReference
    \/ RunFails
    \/ CompareMaps
    \/ ReportAgree
    \/ ExploreDeeper
    \/ ReportVariation

Spec == Init /\ [][Next]_vars

\* one thread runs debug() to its end, and every engine process started
\* answers or fails: the program always takes its next step
FairSpec == Spec /\ WF_vars(Next)

-----------------------------------------------------------------------------
(* _run() alone, call by call, on every text of at most MaxLines + 1 lines *)

\* e2e4: x
Line_e2e4_x == <<"e", "2", "e", "4", ":", " ", "x">>
CountX == PyStr(<<" ", "x">>)

RunLines == Lines \cup {Line_e2e4_x}

RunTexts == {Text(ls) : ls \in SeqsUpTo(RunLines, MaxLines + 1)}

\* _run(path, depth, fen, moves) is entered, for either engine
InitRun ==
    /\ InitCommon
    /\ depth = 1
    /\ fen = STARTING_FEN
    /\ next_d = depth
    /\ pc = "popen"
    /\ response = <<>>

\* the engine whose executable the process p runs
Who == IF calls[1].path = STOCKFISH_PATH THEN "stockfish" ELSE "engine"

\* p = Popen(path, stdin=PIPE, stdout=PIPE, encoding="UTF8")
RunPopen ==
    /\ pc = "popen"
    /\ \E who \in {"engine", "stockfish"} :
          calls' = <<[op |-> "Popen", path |-> PathOf(who)]>>
    /\ pc' = "write_position"
    /\ UNCHANGED <<prog, depth, fen, moves, d, next_d, chess_perft,
                   stockfish_perft, debug_result, payload, raised, report,
                   queries, verdicts, response, result>>

\* p.stdin.write(f"position fen {fen} moves {moves}\n")
RunWritePosition ==
    /\ pc = "write_position"
    /\ calls' = Append(calls,
                       [op |-> "stdin.write",
                        line |-> Conversation(prog, Who, depth, fen, moves)[1]])
    /\ pc' = "write_go"
    /\ UNCHANGED <<prog, depth, fen, moves, d, next_d, chess_perft,
                   stockfish_perft, debug_result, payload, raised, report,
                   queries, verdicts, response, result>>

\* p.stdin.write(f"go perft {depth}\n")
RunWriteGo ==
    /\ pc = "write_go"
    /\ calls' = Append(calls,
                       [op |-> "stdin.write",
                        line |-> Conversation(prog, Who, depth, fen, moves)[2]])
    /\ pc' = "write_quit"
    /\ UNCHANGED <<prog, depth, fen, moves, d, next_d, chess_perft,
                   stockfish_perft, debug_result, payload, raised, report,
                   queries, verdicts, response, result>>

\* RunWriteQuit followed at once by the read: p.stdin.flush() is left out
RunWriteQuitUnflushed ==
    /\ pc = "write_quit"
    /\ calls' = Append(calls,
                       [op |-> "stdin.write",
                        line |-> Conversation(prog, Who, depth, fen, moves)[3]])
    /\ pc' = "read"
    /\ UNCHANGED <<prog, depth, fen, moves, d, next_d, chess_perft,
                   stockfish_perft, debug_result, payload, raised, report,
                   queries, verdicts, response, result>>

\* p.stdin.write("quit\n")
RunWriteQuit ==
    /\ pc = "write_quit"
    /\ calls' = Append(calls,
                       [op |-> "stdin.write",
                        line |-> Conversation(prog, Who, depth, fen, moves)[3]])
    /\ pc' = "flush"
    /\ UNCHANGED <<prog, depth, fen, moves, d, next_d, chess_perft,
                   stockfish_perft, debug_result, payload, raised, report,
                   queries, verdicts, response, result>>

\* p.stdin.flush(): the pipe stays open for writing
RunFlush ==
    /\ pc = "flush"
    /\ calls' = Append(calls, [op |-> "stdin.flush"])
    /\ pc' = "read"
    /\ UNCHANGED <<prog, depth, fen, moves, d, next_d, chess_perft,
                   stockfish_perft, debug_result, payload, raised, report,
                   queries, verdicts, response, result>>

\* p.stdout.read(): returns at the end of the output, with all of its text
RunRead ==
    /\ pc = "read"
    /\ calls' = Append(calls, [op |-> "stdout.read"])
    /\ response' \in RunTexts
    /\ pc' = "run"
    /\ UNCHANGED <<prog, depth, fen, moves, d, next_d, chess_perft,
                   stockfish_perft, debug_result, payload, raised, report,
                   queries, verdicts, result>>

\* Popen() or a call on p.stdin raises: _run() is left with the exception
RunCallFails ==
    /\ pc \in {"popen", "write_position", "write_go", "write_quit", "flush"}
    /\ LET e == IF pc = "popen" THEN "FileNotFoundError"
                ELSE "BrokenPipeError"
       IN  /\ raised' = e
           /\ result' = Raised(e)
    /\ pc' = "ran"
    /\ UNCHANGED <<prog, depth, fen, moves, d, next_d, chess_perft,
                   stockfish_perft, debug_result, payload, report, queries,
                   verdicts, response, calls>>

\* the parsing loop of _run() on the text it read
RunParse ==
    /\ pc = "run"
    /\ result' = Parse(prog, response)
    /\ pc' = "ran"
    /\ UNCHANGED <<prog, depth, fen, moves, d, next_d, chess_perft,
                   stockfish_perft, debug_result, payload, raised, report,
                   queries, verdicts, response, calls>>

NextRun ==
    \/ RunPopen
    \/ RunWritePosition
    \/ RunWriteGo
    \/ RunWriteQuit
    \/ RunFlush
    \/ RunRead
    \/ RunCallFails
    \/ RunParse

SpecRun == InitRun /\ [][NextRun]_vars

-----------------------------------------------------------------------------
(* Claims about _run() *)

\* C3: the parser maps the line `e2e4: 20` to the entry e2e4 -> 20 (the
\* integer), and a line without a leading square pair, `Nodes searched: 20`,
\* adds no entry: the map holds exactly the records printed.
C3_ParsesMoveRecord ==
    pc = "ran" =>
        /\ response = Text(<<Line_e2e4_20>>)
               => result = Returned(<< <<e2e4, PyInt(20)>> >>)
        /\ response = Text(<<Line_total>>) => result = Returned(EmptyDict)
        /\ response = Text(<<Line_e2e4_20, Line_total>>)
               => result = Returned(<< <<e2e4, PyInt(20)>> >>)

\* C13: a line with a leading square pair and a colon whose count is not
\* an integer, `e2e4: x`, makes _run() fail with ProtocolParseError; no map
\* that _run() returns holds an entry made from that line.
C13_BadCountRejected ==
    pc = "ran" =>
        /\ response = Text(<<Line_e2e4_x>>)
               => result.raised = "ProtocolParseError"
        /\ \A i \in DOMAIN result.value : result.value[i] # <<e2e4, CountX>>

\* the names of the calls made on the process so far, in order
Ops == [i \in DOMAIN calls |-> calls[i].op]

IsPrefix(a, b) == Len(a) <= Len(b) /\ a = SubSeq(b, 1, Len(a))

\* the text has been read: _run() is in or past its parsing loop
HasRead == pc = "run" \/ (pc = "ran" /\ raised = "none")

\* C14 as stated: a _run() call that has read the output has started one
\* process, written the position line, `go perft <depth>` and `quit`, closed
\* the input of the process, and read, in this order.
C14_ClosesBeforeRead ==
    HasRead =>
        Ops = <<"Popen", "stdin.write", "stdin.write", "stdin.write",
                "stdin.close", "stdout.read">>

\* C14, amended: every _run() call starts one process and then makes its
\* calls in the order write position line, write `go perft <depth>`, write
\* `quit`, flush the input, read the output to its end.  The read is the
\* last call, made only after the three writes and the flush; the input is
\* flushed and never closed.
C14_FlushesBeforeRead ==
    /\ IsPrefix(Ops, <<"Popen", "stdin.write", "stdin.write", "stdin.write",
                       "stdin.flush", "stdout.read">>)
    /\ Len(calls) >= 2
           => /\ calls[2].line.cmd = "position fen"
              /\ calls[2].line.fen = fen
              /\ calls[2].line.moves = moves
    /\ Len(calls) >= 3 => calls[3].line = [cmd |-> "go perft", depth |-> depth]
    /\ Len(calls) >= 4 => calls[4].line = [cmd |-> "quit"]
    /\ HasRead <=> Len(calls) = 6
    /\ ~HasRead => (response = <<>> /\ result.value = EmptyDict)
    /\ \A i \in DOMAIN calls : calls[i].op # "stdin.close"

\* C14 happens: a call went through its conversation and parsed a record
C14_Witness ==
    /\ pc = "ran"
    /\ Len(calls) = 6
    /\ calls[6].op = "stdout.read"
    /\ result.value # EmptyDict

\* C20: given the same response text, _run() of perftdebug.py and _run()
\* of perftdebugger.py return the same map, so that the two drivers go on
\* to the same verdicts, the same path and the same outcome.
C20_SameMaps ==
    (pc = "ran" /\ HasRead) => \A p \in Progs : result = Parse(p, response)

-----------------------------------------------------------------------------
(* Claims about _debug() *)

SameCounts(chess, stockfish) ==
    /\ DictKeys(chess) = DictKeys(stockfish)
    /\ \A k \in DictKeys(chess) : DictGet(chess, k) = DictGet(stockfish, k)

\* the keys on which two maps of the same key set hold different values
Differing(chess, stockfish) ==
    {k \in DictKeys(chess) : DictGet(chess, k) # DictGet(stockfish, k)}

\* C4: the comparator returns OK exactly when both maps have the same move
\* set and the same count for every move; a map compared with itself is OK.
C4_AgreeIffSameMaps ==
    pc = "dispatch" =>
        /\ debug_result = OK <=> SameCounts(chess_perft, stockfish_perft)
        /\ chess_perft = stockfish_perft => debug_result = OK

\* C4 happens: two maps of two moves, inserted in different orders, agree
C4_Witness ==
    /\ pc = "dispatch"
    /\ chess_perft = << <<e2e4, Count20>>, <<d2d4, Count21>> >>
    /\ stockfish_perft = << <<d2d4, Count21>>, <<e2e4, Count20>> >>
    /\ debug_result = OK

\* C5: a tested key set that strictly contains the reference key set gives
\* EXCESS_MOVE with payload tested - reference; a reference key set that
\* strictly contains the tested one gives MISSING_MOVE with payload
\* reference - tested; the counts play no part.
C5_SupersetVerdicts ==
    pc = "dispatch" =>
        LET A == DictKeys(chess_perft)
            B == DictKeys(stockfish_perft)
        IN  /\ (B \subseteq A /\ A # B)
                => /\ debug_result = EXCESS_MOVE
                   /\ payload[EXCESS_MOVE] = PySet(A \ B)
            /\ (A \subseteq B /\ A # B)
                => /\ debug_result = MISSING_MOVE
                   /\ payload[MISSING_MOVE] = PySet(B \ A)

\* C5 happens: the tested map has one more move, and the shared move has
\* different counts
C5_Witness ==
    /\ pc = "dispatch"
    /\ chess_perft = << <<e2e4, Count20>>, <<d2d4, Count21>> >>
    /\ stockfish_perft = << <<d2d4, Count20>> >>
    /\ debug_result = EXCESS_MOVE
    /\ payload[EXCESS_MOVE] = PySet({e2e4})

\* C6: disjoint, non-empty key sets of equal size give DISAGREE_MOVE with the
\* union of both key sets as payload.
C6_DisjointDisagree ==
    LET A == DictKeys(chess_perft)
        B == DictKeys(stockfish_perft)
    IN  (/\ pc = "dispatch"
         /\ A \cap B = {}
         /\ A # {}
         /\ Cardinality(A) = Cardinality(B))
            => /\ debug_result = DISAGREE_MOVE
               /\ payload[DISAGREE_MOVE] = PySet(A \cup B)

\* C6 happens
C6_Witness ==
    /\ pc = "dispatch"
    /\ DictKeys(chess_perft) = {e2e4}
    /\ DictKeys(stockfish_perft) = {d2d4}
    /\ debug_result = DISAGREE_MOVE
    /\ payload[DISAGREE_MOVE] = PySet({e2e4, d2d4})

\* C7: identical key sets and exactly one key with different values give
\* COUNT_MISMATCH naming that key, in whatever order the maps were filled.
C7_OneMismatchNamed ==
    (/\ pc = "dispatch"
     /\ DictKeys(chess_perft) = DictKeys(stockfish_perft)
     /\ Cardinality(Differing(chess_perft, stockfish_perft)) = 1)
        => /\ debug_result = COUNT_MISMATCH
           /\ Differing(chess_perft, stockfish_perft)
                  = {payload[COUNT_MISMATCH].s}

\* C7 happens: the differing move is the last of the tested map and the
\* first of the reference map
C7_Witness ==
    /\ pc = "dispatch"
    /\ chess_perft = << <<e2e4, Count20>>, <<a11, Count5>>, <<d2d4, Count21>> >>
    /\ stockfish_perft
           = << <<d2d4, Count20>>, <<e2e4, Count20>>, <<a11, Count5>> >>
    /\ debug_result = COUNT_MISMATCH
    /\ payload[COUNT_MISMATCH] = PyStr(d2d4)

\* C16: when the two key sets differ the verdict is neither OK nor
\* COUNT_MISMATCH, whatever the counts, and the sizes alone choose it:
\* EXCESS_MOVE with payload tested - reference when the tested set is larger,
\* MISSING_MOVE with payload reference - tested when the reference set is
\* larger, DISAGREE_MOVE with the symmetric difference when the sizes are
\* equal; also when neither set contains the other.
C16_SetsBeforeCounts ==
    LET A == DictKeys(chess_perft)
        B == DictKeys(stockfish_perft)
        expected ==
            IF Cardinality(A) > Cardinality(B)
            THEN [result |-> EXCESS_MOVE, payload |-> PySet(A \ B)]
            ELSE IF Cardinality(B) > Cardinality(A)
            THEN [result |-> MISSING_MOVE, payload |-> PySet(B \ A)]
            ELSE [result |-> DISAGREE_MOVE,
                  payload |-> PySet({k \in A \cup B : k \notin A \cap B})]
    IN  (pc = "dispatch" /\ A # B)
            => /\ debug_result \notin {OK, COUNT_MISMATCH}
               /\ debug_result = expected.result
               /\ payload[debug_result] = expected.payload
               /\ verdicts[Len(verdicts)]
                      = [depth |-> d, result |-> expected.result,
                         payload |-> expected.payload]

\* C16 happens: the tested set is larger and neither set contains the other
C16_Witness ==
    /\ pc = "dispatch"
    /\ chess_perft = << <<d2d4, Count20>>, <<e2e4, Count20>> >>
    /\ stockfish_perft = << <<a11, Count5>> >>
    /\ debug_result = EXCESS_MOVE
    /\ payload[EXCESS_MOVE] = PySet({d2d4, e2e4})

\* the first key, in the order of the map chess, whose values differ
FirstDiffering(chess, stockfish) ==
    LET i == CHOOSE i \in DOMAIN chess :
                 /\ chess[i][1] \in Differing(chess, stockfish)
                 /\ \A j \in 1..(i - 1) :
                        chess[j][1] \notin Differing(chess, stockfish)
    IN  chess[i][1]

\* C17: when the key sets are equal and the counts of several moves differ,
\* the verdict is COUNT_MISMATCH with exactly one move as payload, the first
\* differing move in the order of the tested engine's map (the order in
\* which the tested engine printed its records); the verdict is a function
\* of the two maps, and the move the driver appends is that move.
C17_FirstMismatchInTestedOrder ==
    /\ []((/\ pc = "dispatch"
           /\ DictKeys(chess_perft) = DictKeys(stockfish_perft)
           /\ Differing(chess_perft, stockfish_perft) # {})
             => /\ debug_result = COUNT_MISMATCH
                /\ payload[COUNT_MISMATCH]
                       = PyStr(FirstDiffering(chess_perft, stockfish_perft))
                /\ verdicts[Len(verdicts)]
                       = [depth |-> d, result |-> COUNT_MISMATCH,
                          payload |-> payload[COUNT_MISMATCH]])
    /\ [][(/\ pc = "dispatch"
           /\ DictKeys(chess_perft) = DictKeys(stockfish_perft)
           /\ Differing(chess_perft, stockfish_perft) # {})
             => (moves' = Append(moves, FirstDiffering(chess_perft,
                                                       stockfish_perft)))]_vars

\* C17 happens: two moves differ, and the two maps hold them in opposite
\* orders; the tested engine's first one is named
C17_Witness ==
    /\ pc = "dispatch"
    /\ chess_perft = << <<a11, Count5>>, <<d2d4, Count21>> >>
    /\ stockfish_perft = << <<d2d4, Count20>>, <<a11, Count6>> >>
    /\ debug_result = COUNT_MISMATCH
    /\ payload[COUNT_MISMATCH] = PyStr(a11)

-----------------------------------------------------------------------------
(* Claims about debug() *)

Last(seq) == seq[Len(seq)]

MoveSetVerdicts == {MISSING_MOVE, EXCESS_MOVE, DISAGREE_MOVE}

\* the number of iterations of the loop started so far
Iterations == depth - next_d

\* the program has ended in one of the listed ways
OutcomeListed ==
    \/ /\ report.kind = "agree"
       /\ raised = "none"
    \/ /\ report.kind = "variation"
       /\ report.verdict \in MoveSetVerdicts
       /\ Len(report.variation.moves) < depth
       /\ raised = "none"
    \/ /\ report.kind = "failed"
       /\ raised = "none"

\* the program was ended by the ValueError of `move, node_count = ...`
OutcomeAborted ==
    /\ report = NoReport
    /\ raised = "ValueError"

\* C1 as stated: whenever both engines return a response, the loop ends in
\* agreement, a move-set verdict with a path shorter than D, or exhaustion.
C1_ThreeOutcomes ==
    (pc = "done" /\ raised \notin ProcessErrors) => OutcomeListed

\* C1, amended: for every D >= 1 and engines that return a response, debug()
\* terminates after at most D iterations, d going down by 1 per iteration,
\* in exactly one of: agreement, a move-set verdict with a path shorter than
\* D, exhaustion, or the abort by the ValueError that a response line with a
\* square prefix and not exactly one colon raises (nothing is reported).
C1_Terminates ==
    /\ [](/\ Iterations <= depth
          /\ Len(verdicts) <= Iterations
          /\ Len(queries) <= 2 * Iterations
          /\ pc \notin {"for", "done"} => d = depth - Iterations + 1
          /\ (pc = "done" /\ raised \notin ProcessErrors)
                 => (OutcomeListed /\ ~OutcomeAborted)
                        \/ (OutcomeAborted /\ ~OutcomeListed))
    /\ [][d' # d
             => (/\ d' >= 1
                 /\ d' = (IF Iterations = 0 THEN depth ELSE d - 1))]_vars
    /\ <>(pc = "done")

\* C1 happens: the loop ran all D >= 2 iterations and ended in exhaustion
C1_Witness ==
    /\ pc = "done"
    /\ depth >= 2
    /\ Iterations = depth
    /\ Len(verdicts) = depth
    /\ report = FailedReport

\* C2: in every iteration the tested engine and the reference are asked
\* about the same root fen, the same path and the same depth d, and the path
\* does not change between the two queries.
C2_SameQuestion ==
    /\ [](\A i \in 1..Len(queries) :
             IF i % 2 = 1
             THEN /\ queries[i].engine = "engine"
                  /\ queries[i].fen = fen
                  /\ queries[i].depth = depth - (i - 1) \div 2
             ELSE /\ queries[i].engine = "stockfish"
                  /\ queries[i].fen = queries[i - 1].fen
                  /\ queries[i].moves = queries[i - 1].moves
                  /\ queries[i].depth = queries[i - 1].depth
                  /\ queries[i].stdin[1].fen = queries[i - 1].stdin[1].fen
                  /\ queries[i].stdin[1].moves = queries[i - 1].stdin[1].moves
                  /\ queries[i].stdin[2] = queries[i - 1].stdin[2])
    /\ [](pc \in {"compare", "dispatch"}
             => /\ Len(queries) = 2 * Iterations
                /\ Last(queries).moves = moves
                /\ Last(queries).depth = d)
    /\ [][(pc \in {"run_eng", "run_ref", "compare"})
             => (moves' = moves /\ d' = d /\ fen' = fen)]_vars

\* C2 happens: both engines were asked in a second iteration, after a descent
C2_Witness ==
    /\ pc = "compare"
    /\ Len(queries) = 4
    /\ moves = <<d2d4>>
    /\ queries[3].moves = <<d2d4>>
    /\ queries[4].moves = <<d2d4>>

\* C8: a COUNT_MISMATCH verdict with payload m appends m to the end of the
\* path and the next iteration runs at d - 1; nothing else changes the path.
\* So on entry to the iteration at depth d the path has D - d moves, the
\* payloads of the COUNT_MISMATCH verdicts of depths D, D-1, ..., d+1.
C8_PathIsMismatchHistory ==
    /\ [](pc = "run_eng"
             => /\ Len(moves) = depth - d
                /\ Len(verdicts) = Len(moves)
                /\ \A i \in 1..Len(moves) :
                       verdicts[i] = [depth |-> depth - i + 1,
                                      result |-> COUNT_MISMATCH,
                                      payload |-> PyStr(moves[i])])
    /\ [][(pc = "dispatch" /\ Last(verdicts).result = COUNT_MISMATCH)
             => (/\ moves' = Append(moves, Last(verdicts).payload.s)
                 /\ pc' = "for"
                 /\ next_d' = d - 1)]_vars
    /\ [][moves' # moves
             => (pc = "dispatch" /\ Last(verdicts).result = COUNT_MISMATCH)]_vars

\* C8 happens: two descents, the path holds both payloads in order
C8_Witness ==
    /\ pc = "run_eng"
    /\ depth = 3
    /\ d = 1
    /\ moves = <<d2d4, a11>>

\* C9: on MISSING_MOVE, EXCESS_MOVE or DISAGREE_MOVE the driver stops in that
\* iteration: it reports the verdict, its payload and the root followed by
\* the whole path, leaves the path as it is and asks no engine again.  E.g.
\* tested {e2e4: 20, d2d4: 20} against reference {e2e4: 20} in the first
\* iteration gives EXCESS_MOVE {d2d4} with no move appended.
C9_MoveSetVerdictStops ==
    /\ [][(pc = "dispatch" /\ Last(verdicts).result \in MoveSetVerdicts)
             => (/\ pc' = "done"
                 /\ report' = [kind |-> "variation",
                               verdict |-> Last(verdicts).result,
                               payload |-> Last(verdicts).payload,
                               variation |-> [fen |-> fen, moves |-> moves]]
                 /\ moves' = moves
                 /\ queries' = queries)]_vars
    /\ [][report.kind = "variation"
             => (report' = report /\ queries' = queries /\ moves' = moves)]_vars
    /\ []((/\ pc = "dispatch"
           /\ Iterations = 1
           /\ chess_perft = << <<e2e4, Count20>>, <<d2d4, Count20>> >>
           /\ stockfish_perft = << <<e2e4, Count20>> >>)
             => /\ Last(verdicts).result = EXCESS_MOVE
                /\ Last(verdicts).payload = PySet({d2d4})
                /\ moves = <<>>)

\* C9 happens: a move-set verdict after one descent is reported with the path
C9_Witness ==
    /\ pc = "done"
    /\ Len(queries) = 4
    /\ report = [kind |-> "variation", verdict |-> MISSING_MOVE,
                 payload |-> PySet({e2e4}),
                 variation |-> [fen |-> fen, moves |-> <<d2d4>>]]

\* C10: an OK verdict at any depth, also after descents, ends the run: the
\* driver reports agreement and stops, asks no engine again and does not
\* report exhaustion.
C10_AgreeStops ==
    /\ [][(pc = "dispatch" /\ Last(verdicts).result = OK)
             => (/\ pc' = "done"
                 /\ report'.kind = "agree"
                 /\ queries' = queries)]_vars
    /\ [][report.kind = "agree"
             => (report' = report /\ queries' = queries /\ pc' = "done")]_vars
    /\ [](report.kind = "agree"
             => /\ pc = "done"
                /\ Last(verdicts).result = OK
                /\ Len(queries) = 2 * Len(verdicts))

\* C10 happens: agreement is reported after two descents
C10_Witness ==
    /\ pc = "done"
    /\ report.kind = "agree"
    /\ Len(moves) = 2
    /\ Len(queries) = 6

\* C11: the agreement report names the depth d of the iteration in which
\* the engines agreed (D minus the number of descents) and the position that
\* was compared, the root followed by the path.  The print of perftdebug.py
\* names `fen` alone, so it names the compared position only when the path
\* is empty.
C11_AgreeReportNamesComparison ==
    report.kind = "agree" =>
        /\ {"fen", "depth"} \subseteq DOMAIN report
        /\ report.depth = d
        /\ report.depth = depth - Len(moves)
        /\ [fen |-> report.fen, moves |-> <<>>]
               = [fen |-> Last(queries).fen, moves |-> Last(queries).moves]

\* C12: when a _run() call raises (the process cannot be started, a pipe
\* write fails, or a line cannot be unpacked), debug() ends there: the call
\* is the last one made and was made once, its iteration returns no verdict,
\* no engine is asked again and nothing is reported.
C12_FailureAborts ==
    /\ [](raised # "none"
             => /\ pc = "done"
                /\ report = NoReport
                /\ Last(queries).depth = d
                /\ Len(queries) \in {2 * Iterations - 1, 2 * Iterations}
                /\ Len(verdicts) = Iterations - 1
                /\ \A i \in 1..(Len(queries) - 1) :
                       <<queries[i].engine, queries[i].depth>>
                           # <<Last(queries).engine, Last(queries).depth>>)
    /\ [][(raised = "none" /\ raised' # "none")
             => (/\ pc \in {"run_eng", "run_ref"}
                 /\ Len(queries') = Len(queries) + 1
                 /\ pc' = "done")]_vars
    /\ [][raised # "none"
             => (/\ queries' = queries
                 /\ report' = report
                 /\ next_d' = next_d
                 /\ raised' = raised)]_vars

\* C12 happens: the reference cannot be written to in the second iteration
C12_Witness ==
    /\ raised = "BrokenPipeError"
    /\ Len(queries) = 4
    /\ Len(moves) = 1
    /\ Last(queries).engine = "stockfish"

\* all D comparisons, at depths D down to 1, returned COUNT_MISMATCH
AllMismatch ==
    /\ Len(verdicts) = depth
    /\ \A i \in 1..depth :
           /\ verdicts[i].result = COUNT_MISMATCH
           /\ verdicts[i].depth = depth - i + 1

\* C15: "Debug failed to find variation" is reported if and only if all D
\* comparisons, at depths D down to 1, returned COUNT_MISMATCH; the path then
\* holds exactly D moves and neither agreement nor a move-set verdict is
\* reported.
C15_ExhaustionIffAllMismatch ==
    /\ [](report.kind = "failed"
             => /\ AllMismatch
                /\ Len(moves) = depth
                /\ pc = "done"
                /\ raised = "none")
    /\ [](AllMismatch => report.kind \in {"none", "failed"})
    /\ []((pc = "done" /\ AllMismatch) => report.kind = "failed")
    /\ AllMismatch ~> (report.kind = "failed")
    /\ [][report.kind = "failed" => report' = report]_vars

\* C15 happens: three comparisons, three descents, exhaustion
C15_Witness ==
    /\ report.kind = "failed"
    /\ depth = 3
    /\ moves = <<a11, d2d4, a11>>
    /\ prog = "perftdebugger"

\* C18: every move appended to the path is, in the iteration that appends
\* it, a key of the tested engine's map and of the reference's map, with
\* different counts; when the key sets differ nothing is appended.
C18_DescendsOnlySharedMoves ==
    /\ [][moves' # moves
             => (LET m == Last(moves')
                 IN  /\ moves' = Append(moves, m)
                     /\ m \in DictKeys(chess_perft)
                     /\ m \in DictKeys(stockfish_perft)
                     /\ DictGet(chess_perft, m)
                            # DictGet(stockfish_perft, m))]_vars
    /\ [][(/\ pc = "dispatch"
           /\ DictKeys(chess_perft) # DictKeys(stockfish_perft))
             => (moves' = moves /\ pc' = "done")]_vars

\* C18 happens: two moves were descended into, each reported by both engines
C18_Witness ==
    /\ pc = "for"
    /\ moves = <<a11, d2d4>>
    /\ verdicts[1].payload = PyStr(a11)
    /\ verdicts[2].payload = PyStr(d2d4)

\* what the comparison of two maps that do not agree has to name
ComputedPayload(chess, stockfish) ==
    LET A == DictKeys(chess)
        B == DictKeys(stockfish)
    IN  IF A = B THEN PyStr(FirstDiffering(chess, stockfish))
        ELSE IF Cardinality(A) > Cardinality(B) THEN PySet(A \ B)
        ELSE IF Cardinality(B) > Cardinality(A) THEN PySet(B \ A)
        ELSE PySet((A \ B) \cup (B \ A))

\* C19: the payload attribute debug() reads after a verdict other than OK
\* is the one the comparison of the same iteration computed from its two
\* maps: that is the move appended on COUNT_MISMATCH and the move set
\* printed with a move-set verdict, although attributes set by earlier
\* comparisons stay on the enum members.
C19_PayloadIsFresh ==
    /\ []((pc = "dispatch" /\ debug_result # OK)
             => /\ payload[debug_result]
                       = ComputedPayload(chess_perft, stockfish_perft)
                /\ Last(verdicts).depth = d
                /\ Last(verdicts).payload = payload[debug_result])
    /\ [][moves' # moves
             => (/\ debug_result = COUNT_MISMATCH
                 /\ PyStr(Last(moves'))
                        = ComputedPayload(chess_perft, stockfish_perft))]_vars
    /\ [][(report.kind = "none" /\ report'.kind = "variation")
             => (report'.payload
                    = ComputedPayload(chess_perft, stockfish_perft))]_vars

\* C19 happens: COUNT_MISMATCH is returned a second time and its attribute,
\* a11 since the first iteration, now holds d2d4
C19_Witness ==
    /\ pc = "dispatch"
    /\ Len(verdicts) = 2
    /\ verdicts[1].payload = PyStr(a11)
    /\ debug_result = COUNT_MISMATCH
    /\ payload[COUNT_MISMATCH] = PyStr(d2d4)

====
